---- MODULE Spec2Model ----
\* Model of trendradar/core/content_filter.py: the category matcher and the
\* two filters built on it.  Strings that are searched (titles, keywords) are
\* sequences of one-character strings; Python dicts are insertion-ordered
\* sequences of <<key, value>> pairs with unique keys; a config is a function
\* whose domain is the set of keys that are present.
EXTENDS Integers, Sequences, FiniteSets, TLC

\* ---------------------------------------------------------------- bounds
MaxSources  == 2    \* sources in a result set
MaxTitles   == 2    \* titles per source
MaxItems    == 2    \* items in an RSS item list
MaxKeywords == 2    \* keywords per category, in the configs given to the matcher

\* ---------------------------------------------------------------- inputs
CategoryNames == {"finance", "tech"}

\* "", "xAI", "Xb", "a"
TitleSet     == { <<>>, <<"x", "A", "I">>, <<"X", "b">>, <<"a">> }
\* title keys of the result sets
ResultTitles == { <<"x", "A", "I">>, <<"X", "b">> }
\* "", "Ai", "B"
KeywordSet   == { <<>>, <<"A", "i">>, <<"B">> }

SeqsUpTo(S, n) == UNION { [1..k -> S] : k \in 0..n }

IsInjective(s) == \A i, j \in 1..Len(s) : s[i] = s[j] => i = j

EmptyMap == [k \in {} |-> <<>>]

\* a config is any subset of the three keys; CATEGORIES is a list of unique
\* names, KEYWORDS maps some of the names (listed or not) to keyword lists
EnabledChoices  == { EmptyMap, "ENABLED" :> TRUE, "ENABLED" :> FALSE }
CategoryChoices == { EmptyMap } \cup
                   { "CATEGORIES" :> c :
                       c \in { s \in SeqsUpTo(CategoryNames, Cardinality(CategoryNames)) : IsInjective(s) } }
KeywordChoices(lists) ==
    { EmptyMap } \cup
    { "KEYWORDS" :> k : k \in UNION { [D -> lists] : D \in SUBSET CategoryNames } }
ConfigsWith(lists) ==
    { e @@ c @@ k : e \in EnabledChoices, c \in CategoryChoices, k \in KeywordChoices(lists) }

\* configs given to the matcher
MatchConfigs  == ConfigsWith(SeqsUpTo(KeywordSet, MaxKeywords))
\* configs given to the filters, which use a config only through the matcher:
\* a category has no keyword or a single one
FilterConfigs == ConfigsWith({ <<>> } \cup { <<k>> : k \in KeywordSet })

\* title maps: dict title -> title_data, keys unique, payload names its entry
TitleMapOf(src, ts) == [i \in 1..Len(ts) |-> << ts[i], [source |-> src, of |-> ts[i]] >>]
TitleSeqs == { s \in SeqsUpTo(ResultTitles, MaxTitles) : IsInjective(s) }

\* result sets: dict source_id -> title map, keys unique
ResultSets == UNION { { [i \in 1..n |-> << <<"src", i>>, TitleMapOf(i, f[i]) >>] : f \in [1..n -> TitleSeqs] }
                      : n \in 0..MaxSources }

\* items: dicts with an optional 'title' field
TitleOpts == { [has |-> TRUE, t |-> t] : t \in TitleSet } \cup { [has |-> FALSE, t |-> <<>>] }
ItemLists == UNION { { [i \in 1..n |-> IF f[i].has THEN ("id" :> i) @@ ("title" :> f[i].t) ELSE "id" :> i]
                         : f \in [1..n -> TitleOpts] }
                     : n \in 0..MaxItems }

\* ---------------------------------------------------------------- helpers
\* dict.get(key, default)
Get(d, key, default) == IF key \in DOMAIN d THEN d[key] ELSE default

\* str.lower() on one character and on a string
LowerChar(c) == CASE c = "A" -> "a"
                  [] c = "B" -> "b"
                  [] c = "I" -> "i"
                  [] c = "X" -> "x"
                  [] OTHER   -> c
Lower(s) == [i \in 1..Len(s) |-> LowerChar(s[i])]

\* the `in` operator on strings: needle occurs at some offset of hay
StrContains(needle, hay) ==
    \E off \in 0..(Len(hay) - Len(needle)) :
        \A i \in 1..Len(needle) : hay[off + i] = needle[i]

\* d[key] = value on an insertion-ordered dict
RECURSIVE DictSetAt(_, _, _, _)
DictSetAt(d, key, value, i) ==
    IF i > Len(d) THEN Append(d, <<key, value>>)
    ELSE IF d[i][1] = key THEN [d EXCEPT ![i] = <<key, value>>]
    ELSE DictSetAt(d, key, value, i + 1)
DictSet(d, key, value) == DictSetAt(d, key, value, 1)

\* ', '.join(categories)
RECURSIVE Join(_, _)
Join(cs, i) ==
    IF i > Len(cs) THEN ""
    ELSE IF i = Len(cs) THEN cs[i]
    ELSE cs[i] \o ", " \o Join(cs, i + 1)

\* ---------------------------------------------------------------- matcher
\* variant: the keyword is not lowered
KeywordHitCaseSensitive(keyword, title_lower) == StrContains(keyword, title_lower)
\* line 45: keyword.lower() in title_lower
KeywordHit(keyword, title_lower) == StrContains(Lower(keyword), title_lower)

\* lines 43-46: for keyword in category_keywords
RECURSIVE KeywordLoop(_, _, _)
KeywordLoop(category_keywords, title_lower, j) ==
    IF j > Len(category_keywords) THEN FALSE
    ELSE IF KeywordHit(category_keywords[j], title_lower) THEN TRUE
    ELSE KeywordLoop(category_keywords, title_lower, j + 1)

\* lines 41-46: for category in categories
RECURSIVE CategoryLoop(_, _, _, _)
CategoryLoop(categories, keywords, title_lower, i) ==
    IF i > Len(categories) THEN FALSE
    ELSE IF KeywordLoop(Get(keywords, categories[i], <<>>), title_lower, 1) THEN TRUE
    ELSE CategoryLoop(categories, keywords, title_lower, i + 1)

\* variant: an absent flag counts as enabled
EnabledDefaultTrue(content_filter_config) == Get(content_filter_config, "ENABLED", TRUE)
\* lines 29, 67, 109: content_filter_config.get("ENABLED", False)
Enabled(content_filter_config) == Get(content_filter_config, "ENABLED", FALSE)

\* lines 12-48
matches_content_category(title, content_filter_config) ==
    IF ~Enabled(content_filter_config) THEN TRUE
    ELSE LET categories == Get(content_filter_config, "CATEGORIES", <<>>)
             keywords   == Get(content_filter_config, "KEYWORDS", EmptyMap)
         IN  IF Len(categories) = 0 \/ DOMAIN keywords = {} THEN TRUE
             ELSE CategoryLoop(categories, keywords, Lower(title), 1)

\* ---------------------------------------------------------------- result-set filter
\* lines 78-80: for title, title_data in titles_data.items()
RECURSIVE TitleLoop(_, _, _, _)
TitleLoop(titles_data, content_filter_config, i, filtered_titles) ==
    IF i > Len(titles_data) THEN filtered_titles
    ELSE TitleLoop(titles_data, content_filter_config, i + 1,
                   IF matches_content_category(titles_data[i][1], content_filter_config)
                   THEN DictSet(filtered_titles, titles_data[i][1], titles_data[i][2])
                   ELSE filtered_titles)

\* variants of the loop body: the source is kept when its input map is
\* non-empty; kept always; total_before counted only for kept sources; the
\* kept source put in front
SourceStepKeepIfInput(acc, source_id, titles_data, content_filter_config) ==
    LET filtered_titles == TitleLoop(titles_data, content_filter_config, 1, <<>>)
        keep == Len(titles_data) > 0
    IN  [filtered_results |-> IF keep THEN DictSet(acc.filtered_results, source_id, filtered_titles)
                                      ELSE acc.filtered_results,
         total_before |-> acc.total_before + Len(titles_data),
         total_after  |-> IF keep THEN acc.total_after + Len(filtered_titles) ELSE acc.total_after]
SourceStepKeepAlways(acc, source_id, titles_data, content_filter_config) ==
    LET filtered_titles == TitleLoop(titles_data, content_filter_config, 1, <<>>)
    IN  [filtered_results |-> DictSet(acc.filtered_results, source_id, filtered_titles),
         total_before |-> acc.total_before + Len(titles_data),
         total_after  |-> acc.total_after + Len(filtered_titles)]
SourceStepCountKept(acc, source_id, titles_data, content_filter_config) ==
    LET filtered_titles == TitleLoop(titles_data, content_filter_config, 1, <<>>)
        keep == Len(filtered_titles) > 0
    IN  [filtered_results |-> IF keep THEN DictSet(acc.filtered_results, source_id, filtered_titles)
                                      ELSE acc.filtered_results,
         total_before |-> IF keep THEN acc.total_before + Len(titles_data) ELSE acc.total_before,
         total_after  |-> IF keep THEN acc.total_after + Len(filtered_titles) ELSE acc.total_after]
SourceStepPrepend(acc, source_id, titles_data, content_filter_config) ==
    LET filtered_titles == TitleLoop(titles_data, content_filter_config, 1, <<>>)
        keep == Len(filtered_titles) > 0
    IN  [filtered_results |-> IF keep THEN << <<source_id, filtered_titles>> >> \o acc.filtered_results
                                      ELSE acc.filtered_results,
         total_before |-> acc.total_before + Len(titles_data),
         total_after  |-> IF keep THEN acc.total_after + Len(filtered_titles) ELSE acc.total_after]

\* lines 75-84: body of `for source_id, titles_data in results.items()`
SourceStep(acc, source_id, titles_data, content_filter_config) ==
    LET filtered_titles == TitleLoop(titles_data, content_filter_config, 1, <<>>)
        keep == Len(filtered_titles) > 0
    IN  [filtered_results |-> IF keep THEN DictSet(acc.filtered_results, source_id, filtered_titles)
                                      ELSE acc.filtered_results,
         total_before |-> acc.total_before + Len(titles_data),
         total_after  |-> IF keep THEN acc.total_after + Len(filtered_titles) ELSE acc.total_after]

\* lines 74-84: for source_id, titles_data in results.items()
RECURSIVE SourceLoop(_, _, _, _)
SourceLoop(res, content_filter_config, i, acc) ==
    IF i > Len(res) THEN acc
    ELSE SourceLoop(res, content_filter_config, i + 1,
                    SourceStep(acc, res[i][1], res[i][2], content_filter_config))

\* the line printed at line 88
ResultsLine(total_before, total_after, categories) ==
    [kind |-> "results", before |-> total_before, after |-> total_after,
     categories |-> Join(categories, 1)]

\* variant: the line is printed whatever quiet is
filter_results_ignoring_quiet(res, content_filter_config, q) ==
    IF ~Enabled(content_filter_config) THEN [ret |-> res, stdout |-> <<>>]
    ELSE LET acc == SourceLoop(res, content_filter_config, 1,
                               [filtered_results |-> <<>>, total_before |-> 0, total_after |-> 0])
         IN  [ret |-> acc.filtered_results,
              stdout |-> << ResultsLine(acc.total_before, acc.total_after,
                                        Get(content_filter_config, "CATEGORIES", <<>>)) >>]

\* lines 51-90; ret is the value returned, stdout the lines printed
filter_results_by_category(res, content_filter_config, q) ==
    IF ~Enabled(content_filter_config) THEN [ret |-> res, stdout |-> <<>>]
    ELSE LET acc == SourceLoop(res, content_filter_config, 1,
                               [filtered_results |-> <<>>, total_before |-> 0, total_after |-> 0])
         IN  [ret |-> acc.filtered_results,
              stdout |-> IF ~q
                         THEN << ResultsLine(acc.total_before, acc.total_after,
                                             Get(content_filter_config, "CATEGORIES", <<>>)) >>
                         ELSE <<>>]

\* ---------------------------------------------------------------- item-list filter
\* lines 117-120: for item in rss_items
RECURSIVE ItemLoop(_, _, _, _)
ItemLoop(items, content_filter_config, i, filtered_items) ==
    IF i > Len(items) THEN filtered_items
    ELSE ItemLoop(items, content_filter_config, i + 1,
                  IF matches_content_category(Get(items[i], "title", <<>>), content_filter_config)
                  THEN Append(filtered_items, items[i])
                  ELSE filtered_items)

\* the line printed at line 124
ItemsLine(n_before, n_after, categories) ==
    [kind |-> "rss", before |-> n_before, after |-> n_after,
     categories |-> Join(categories, 1)]

\* variant: without the early return of lines 112-113
filter_rss_items_no_empty_check(items, content_filter_config, q) ==
    IF ~Enabled(content_filter_config) THEN [ret |-> items, stdout |-> <<>>]
    ELSE LET filtered_items == ItemLoop(items, content_filter_config, 1, <<>>)
         IN  [ret |-> filtered_items,
              stdout |-> IF ~q
                         THEN << ItemsLine(Len(items), Len(filtered_items),
                                           Get(content_filter_config, "CATEGORIES", <<>>)) >>
                         ELSE <<>>]

\* lines 93-126
filter_rss_items_by_category(items, content_filter_config, q) ==
    IF ~Enabled(content_filter_config) THEN [ret |-> items, stdout |-> <<>>]
    ELSE IF Len(items) = 0 THEN [ret |-> items, stdout |-> <<>>]
    ELSE LET filtered_items == ItemLoop(items, content_filter_config, 1, <<>>)
         IN  [ret |-> filtered_items,
              stdout |-> IF ~q
                         THEN << ItemsLine(Len(items), Len(filtered_items),
                                           Get(content_filter_config, "CATEGORIES", <<>>)) >>
                         ELSE <<>>]

\* ---------------------------------------------------------------- state
\* One behaviour is one caller: it holds a config and an input, calls one of
\* the three functions (pc = "done"), and for the two filters may feed the
\* returned collection back in with the same config (pc = "again").
VARIABLES op, pc, config, quiet, title, results, rss_items, ret, out, out2, printed

vars == <<op, pc, config, quiet, title, results, rss_items, ret, out, out2, printed>>

InitMatch ==
    /\ pc = "start"
    /\ op = "matches"
    /\ config \in MatchConfigs
    /\ title \in TitleSet
    /\ results = <<>> /\ rss_items = <<>> /\ quiet = FALSE
    /\ ret = FALSE /\ out = <<>> /\ out2 = <<>> /\ printed = <<>>

Init ==
    /\ pc = "start"
    /\ config \in FilterConfigs
    /\ quiet \in BOOLEAN
    /\ \/ op = "results" /\ results \in ResultSets /\ rss_items = <<>>
       \/ op = "items" /\ results = <<>> /\ rss_items \in ItemLists
    /\ title = <<>>
    /\ ret = FALSE /\ out = <<>> /\ out2 = <<>> /\ printed = <<>>

MatchesCall ==
    /\ pc = "start" /\ op = "matches"
    /\ ret' = matches_content_category(title, config)
    /\ pc' = "done"
    /\ UNCHANGED <<op, config, quiet, title, results, rss_items, out, out2, printed>>

FilterResultsCall ==
    /\ pc = "start" /\ op = "results"
    /\ LET r == filter_results_by_category(results, config, quiet)
       IN  out' = r.ret /\ printed' = printed \o r.stdout
    /\ pc' = "done"
    /\ UNCHANGED <<op, config, quiet, title, results, rss_items, ret, out2>>

FilterResultsAgain ==
    /\ pc = "done" /\ op = "results"
    /\ LET r == filter_results_by_category(out, config, quiet)
       IN  out2' = r.ret /\ printed' = printed \o r.stdout
    /\ pc' = "again"
    /\ UNCHANGED <<op, config, quiet, title, results, rss_items, ret, out>>

FilterItemsCall ==
    /\ pc = "start" /\ op = "items"
    /\ LET r == filter_rss_items_by_category(rss_items, config, quiet)
       IN  out' = r.ret /\ printed' = printed \o r.stdout
    /\ pc' = "done"
    /\ UNCHANGED <<op, config, quiet, title, results, rss_items, ret, out2>>

FilterItemsAgain ==
    /\ pc = "done" /\ op = "items"
    /\ LET r == filter_rss_items_by_category(out, config, quiet)
       IN  out2' = r.ret /\ printed' = printed \o r.stdout
    /\ pc' = "again"
    /\ UNCHANGED <<op, config, quiet, title, results, rss_items, ret, out>>

Next ==
    \/ FilterResultsCall
    \/ FilterResultsAgain
    \/ FilterItemsCall
    \/ FilterItemsAgain

\* a caller of one of the two filters
Spec == Init /\ [][Next]_vars

NextMatch == MatchesCall

\* a caller of the matcher
SpecMatch == InitMatch /\ [][NextMatch]_vars

\* ---------------------------------------------------------------- vocabulary of the properties
\* The config as the caller sees it, read without the code's accessors.
FlagOn       == "ENABLED" \in DOMAIN config /\ config["ENABLED"] = TRUE
FlagOff      == ~FlagOn
CfgCategories == IF "CATEGORIES" \in DOMAIN config THEN config["CATEGORIES"] ELSE <<>>
CfgKeywords   == IF "KEYWORDS" \in DOMAIN config THEN config["KEYWORDS"] ELSE EmptyMap
Incomplete   == CfgCategories = <<>> \/ DOMAIN CfgKeywords = {}
FullyConfigured == FlagOn /\ ~Incomplete

Range(s) == { s[i] : i \in 1..Len(s) }

\* keywords reachable through the allowed categories
AllowedKeywords(cats, kws) ==
    UNION { Range(kws[c]) : c \in Range(cats) \cap DOMAIN kws }
AllKeywords(kws) == UNION { Range(kws[c]) : c \in DOMAIN kws }

Reverse(s) == [i \in 1..Len(s) |-> s[Len(s) + 1 - i]]

\* a is a subsequence of b (greedy scan)
RECURSIVE IsSubseq(_, _, _, _)
IsSubseq(a, b, i, j) ==
    IF i > Len(a) THEN TRUE
    ELSE IF j > Len(b) THEN FALSE
    ELSE IF a[i] = b[j] THEN IsSubseq(a, b, i + 1, j + 1)
    ELSE IsSubseq(a, b, i, j + 1)

Keys(d) == [i \in 1..Len(d) |-> d[i][1]]

RECURSIVE SumSizes(_, _)
SumSizes(d, i) == IF i > Len(d) THEN 0 ELSE Len(d[i][2]) + SumSizes(d, i + 1)

ItemTitle(item) == IF "title" \in DOMAIN item THEN item["title"] ELSE <<>>

\* ---------------------------------------------------------------- C1
\* C1: with the enabled flag false or absent, filterResultSet and
\* filterItemList return their input unchanged, whatever the categories and
\* keywords of the config.
C1_PassThroughWhenDisabled ==
    (pc = "done" /\ FlagOff) =>
        /\ op = "results" => out = results
        /\ op = "items" => out = rss_items

\* a disabled (flag absent) but otherwise complete config, and an input with
\* an empty source and a title no keyword matches
C1_Witness ==
    /\ pc = "done" /\ op = "results"
    /\ "ENABLED" \notin DOMAIN config
    /\ ~Incomplete
    /\ Len(results) = 2 /\ results[1][2] = <<>> /\ Len(results[2][2]) = 1
    /\ ~matches_content_category(results[2][2][1][1], ("ENABLED" :> TRUE) @@ config)
    /\ out = results

\* ---------------------------------------------------------------- C2
\* C2: with the flag on but categories empty or keywords empty, the output of
\* filterResultSet equals its input result set and the output of
\* filterItemList equals its input list, also when a source maps to an empty
\* title map.
C2_FailOpenOutputEqualsInput ==
    (pc = "done" /\ FlagOn /\ Incomplete) =>
        /\ op = "results" => out = results
        /\ op = "items" => out = rss_items

\* ---------------------------------------------------------------- C3
\* C3: for a fully configured config, matches returns true only if some
\* keyword of an allowed category is a NON-EMPTY case-insensitive substring
\* of the title.
C3_EmptyKeywordNeverMatches ==
    (pc = "done" /\ op = "matches" /\ FullyConfigured /\ ret) =>
        \E k \in AllowedKeywords(CfgCategories, CfgKeywords) :
            k # <<>> /\ StrContains(Lower(k), Lower(title))

\* ---------------------------------------------------------------- C4
\* C4: for a fully configured config whose keywords are all non-empty,
\* matches is true exactly when a keyword of a listed category that is
\* present in the keywords map is, lowercased, a substring of the lowercased
\* title; and the result is the same with categories and keywords reordered.
C4_MatcherReference ==
    (pc = "done" /\ op = "matches" /\ FullyConfigured
        /\ <<>> \notin AllKeywords(CfgKeywords)) =>
        /\ ret = (\E c \in Range(CfgCategories) :
                     /\ c \in DOMAIN CfgKeywords
                     /\ \E k \in Range(CfgKeywords[c]) : StrContains(Lower(k), Lower(title)))
        /\ ret = matches_content_category(title,
                    [config EXCEPT !["CATEGORIES"] = Reverse(@),
                                   !["KEYWORDS"] = [c \in DOMAIN @ |-> Reverse(@[c])]])

\* a match that needs lowering on both sides, found through the second
\* category, the first being listed but absent from the keywords map
C4_Witness ==
    /\ pc = "done" /\ op = "matches" /\ FullyConfigured
    /\ <<>> \notin AllKeywords(CfgKeywords)
    /\ Len(CfgCategories) = 2
    /\ CfgCategories[1] \notin DOMAIN CfgKeywords
    /\ title = <<"x", "A", "I">>
    /\ CfgKeywords[CfgCategories[2]] = << <<"B">>, <<"A", "i">> >>
    /\ ret

\* ---------------------------------------------------------------- C5
\* C5: filtering the output of a filter again with the same config returns
\* that output.
C5_Idempotence ==
    pc = "again" => out2 = out

\* a second application after a first one that dropped a title and a source
C5_Witness ==
    /\ pc = "again" /\ op = "results" /\ FullyConfigured
    /\ Len(results) = 2 /\ Len(out) = 1
    /\ SumSizes(out, 1) < SumSizes(results, 1)
    /\ out2 = out

\* ---------------------------------------------------------------- C6
\* C6: the output item list is a subsequence of the input list; the output
\* result set has its sources in input order, each an input source whose
\* output title map is a subsequence of its input title map (same payloads).
C6_SubsetAndOrder ==
    pc = "done" =>
        /\ op = "items" => IsSubseq(out, rss_items, 1, 1)
        /\ op = "results" =>
              /\ IsSubseq(Keys(out), Keys(results), 1, 1)
              /\ \A i \in 1..Len(out) :
                    \E j \in 1..Len(results) :
                        /\ results[j][1] = out[i][1]
                        /\ IsSubseq(out[i][2], results[j][2], 1, 1)

\* two sources kept, the first of them having lost a title
C6_Witness ==
    /\ pc = "done" /\ op = "results" /\ FullyConfigured
    /\ Len(results) = 2 /\ Len(out) = 2
    /\ Len(results[1][2]) = 2 /\ Len(out[1][2]) = 1

\* ---------------------------------------------------------------- C7
\* C7: with the flag on, a source is in the output of filterResultSet exactly
\* when one of its input titles satisfies matches; its output titles are then
\* exactly its matching titles; no output source has an empty title map.
C7_DroppedSources ==
    (pc = "done" /\ op = "results" /\ FlagOn) =>
        /\ \A j \in 1..Len(results) :
              LET matching == { t \in Range(Keys(results[j][2])) : matches_content_category(t, config) }
              IN  /\ (results[j][1] \in Range(Keys(out))) <=> (matching # {})
                  /\ \A i \in 1..Len(out) :
                        out[i][1] = results[j][1] => Range(Keys(out[i][2])) = matching
        /\ \A i \in 1..Len(out) : out[i][2] # <<>>

\* one source dropped because none of its titles matches, one kept
C7_Witness ==
    /\ pc = "done" /\ op = "results" /\ FullyConfigured
    /\ Len(results) = 2 /\ results[1][2] # <<>>
    /\ Len(out) = 1 /\ out[1][1] = results[2][1]

\* ---------------------------------------------------------------- C8
\* C8 as stated: every filterResultSet call with quiet = false emits exactly
\* one summary line and every call with quiet = true none, for every config,
\* enabled or disabled.
C8_OneLineUnlessQuiet ==
    (pc = "done" /\ op = "results") =>
        Len(printed) = IF quiet THEN 0 ELSE 1

\* C8 amended: a filterResultSet call emits exactly one summary line when the
\* flag is on and quiet is false, and none when quiet is true or the flag is
\* false or absent; the inputs are left as they were.
C8_OneLineWhenEnabledAndNotQuiet ==
    (pc = "done" /\ op = "results") =>
        /\ Len(printed) = IF FlagOn /\ ~quiet THEN 1 ELSE 0
        /\ \A i \in 1..Len(printed) : printed[i].kind = "results"

\* a quiet call that filtered something and printed nothing
C8_Witness ==
    /\ pc = "done" /\ op = "results" /\ FullyConfigured /\ quiet
    /\ out # results
    /\ printed = <<>>

\* ---------------------------------------------------------------- C9
\* C9: an emitted summary line reports the number of input entries (for a
\* result set the sum of all input title-map sizes, dropped sources
\* included) and the number of output entries, and after <= before.
C9_SummaryCounts ==
    (pc = "done" /\ printed # <<>>) =>
        /\ Len(printed) = 1
        /\ op = "results" =>
              /\ printed[1].before = SumSizes(results, 1)
              /\ printed[1].after = SumSizes(out, 1)
        /\ op = "items" =>
              /\ printed[1].before = Len(rss_items)
              /\ printed[1].after = Len(out)
        /\ printed[1].after <= printed[1].before

\* a line reporting 3 -> 1: one source dropped, the other left with one of
\* its two titles
C9_Witness ==
    /\ pc = "done" /\ op = "results" /\ printed # <<>>
    /\ Len(results) = 2 /\ Len(results[1][2]) = 1 /\ Len(results[2][2]) = 2
    /\ Len(out) = 1 /\ out[1][1] = results[2][1]
    /\ printed[1].before = 3 /\ printed[1].after = 1

\* ---------------------------------------------------------------- C10
\* C10: filterItemList on an empty list returns the empty list and emits no
\* line, for every config and either value of quiet; with the flag on, a
\* non-empty list and quiet = false it emits exactly one line, even when
\* every item is filtered out.
C10_EmptyItemList ==
    (pc = "done" /\ op = "items") =>
        /\ rss_items = <<>> => (out = <<>> /\ printed = <<>>)
        /\ (FlagOn /\ rss_items # <<>> /\ ~quiet) => Len(printed) = 1

\* the empty list given to an enabled, complete, non-quiet filter
C10_Witness ==
    /\ pc = "done" /\ op = "items" /\ FullyConfigured /\ ~quiet
    /\ rss_items = <<>>
    /\ out = <<>> /\ printed = <<>>

\* every item of a non-empty list filtered out, one line printed
C10_WitnessAllFiltered ==
    /\ pc = "done" /\ op = "items" /\ FullyConfigured /\ ~quiet
    /\ rss_items # <<>> /\ out = <<>>
    /\ Len(printed) = 1
====
